---- MODULE Spec2Model ----
(***************************************************************************)
(* The war server of src/war.py: the accept loop of serve_game, the        *)
(* matchmaking list waiting_clients, and one worker thread per game        *)
(* running handle_client_connection.                                       *)
(*                                                                         *)
(* A step of the model is what a thread does from the return of one        *)
(* blocking call (accept, readexactly) to its next blocking call.  What a  *)
(* peer delivers to a read, and whether a socket call raises, is the input *)
(* of the step.  A peer that stalls is a read step that is not taken.      *)
(***************************************************************************)
EXTENDS Integers, Sequences, FiniteSets, TLC

\* ---------------------------------------------------------------- bounds
\* Connections that reach the listening socket in one run.
MaxConns == 4
\* Outcomes of random.shuffle that a deal chooses from.
NumDeals == 2
\* Game sessions that faulty input or a failing socket call kills in one run.
MaxFaults == 1
\* Bytes a socket delivers before its end, in a readexactly call followed
\* step by step.
MaxBytes == 4
\* numbytes of such a call.
MaxRead == 3

\* ------------------------------------------------------ program constants
WANTGAME == 0
GAMESTART == 1
PLAYCARD == 2
PLAYRESULT == 3

WIN == 0
DRAW == 1
LOSE == 2

\* list(range(52))
DeckSize == 52
\* deck[:26], deck[26:]
HandSize == 26
\* for _ in range(26)
NumRounds == 26
\* card % 13
RankMod == 13
\* readexactly(sock, 2)
FrameLen == 2

VARIABLES
    accepted,         \* connections accepted so far; client_socket is the last
    apc,              \* serve_game: "accept" (in accept()) or "read" (in readexactly)
    msg,              \* serve_game: the opening bytes read from client_socket
    waiting_clients,  \* the module's list of sockets that wait for an opponent
    games,            \* serve_game: the list of Game(p1, p2) tuples
    session,          \* per game: the locals of its handle_client_connection thread
    closed,           \* per connection: the server has closed its socket
    sent,             \* per connection: the frames the server has sent on it
    rx,               \* per connection: the round frames readexactly returned on it
    rd                \* one readexactly call: its arguments, its locals, its position

vars == <<accepted, apc, msg, waiting_clients, games, session, closed, sent, rx, rd>>

Conns == 1..MaxConns

client_socket == accepted

Range(s) == {s[i] : i \in DOMAIN s}

\* Faulty variant: the players of a game in the wrong order.
GameSwapped(p1, p2) == [p1 |-> p2, p2 |-> p1]

Game(p1, p2) == [p1 |-> p1, p2 |-> p2]

\* ----------------------------------------------------------- readexactly
\* A stream is what a peer's connection delivers before its end: the
\* sequence of non-empty pieces in which the bytes arrive.  After the last
\* piece recv returns b'' (end of stream).

\* Faulty variant: the whole first piece, whatever bufsize is.
recvWhole(stream, bufsize) ==
    IF stream = <<>>
    THEN [packet |-> <<>>, rest |-> <<>>]
    ELSE [packet |-> Head(stream), rest |-> Tail(stream)]

\* sock.recv(bufsize): at most bufsize bytes of the first piece, and the
\* stream that is left.
recv(stream, bufsize) ==
    IF stream = <<>>
    THEN [packet |-> <<>>, rest |-> <<>>]
    ELSE IF Len(Head(stream)) <= bufsize
    THEN [packet |-> Head(stream), rest |-> Tail(stream)]
    ELSE [packet |-> SubSeq(Head(stream), 1, bufsize),
          rest |-> <<SubSeq(Head(stream), bufsize + 1, Len(Head(stream)))>>
                   \o Tail(stream)]

\* The while loop of readexactly, from `data` on.
RECURSIVE readloop(_, _, _)
readloop(data, stream, numbytes) ==
    IF Len(data) < numbytes
    THEN LET r == recv(stream, numbytes - Len(data))
         IN  IF r.packet = <<>>
             THEN [data |-> data, rest |-> r.rest]
             ELSE readloop(data \o r.packet, r.rest, numbytes)
    ELSE [data |-> data, rest |-> stream]

\* readexactly(sock, numbytes): the bytes returned, and the stream left.
readexactly(stream, numbytes) == readloop(<<>>, stream, numbytes)

\* The streams a peer that sends one of the frames of F can produce for one
\* read: the frame in one piece or byte by byte and, with faults, the
\* stream that ends before the frame or inside it.
Deliveries(F, faults) ==
    {<<f>> : f \in F}
    \cup {[i \in 1..Len(f) |-> <<f[i]>>] : f \in F}
    \cup (IF faults
          THEN {<<>>}
               \cup UNION {{<<SubSeq(f, 1, n)>> : n \in 1..(Len(f) - 1)} : f \in F}
          ELSE {})

\* The outcomes of one readexactly call that ends: a recv raises (only with
\* faults), or the call returns data.
ReadOutcomes(F, numbytes, faults) ==
    (IF faults THEN {[exc |-> TRUE, data |-> <<>>]} ELSE {})
    \cup {[exc |-> FALSE, data |-> readexactly(st, numbytes).data] :
            st \in Deliveries(F, faults)}

\* No readexactly call is followed step by step.
NoRead ==
    [pc |-> "none", sock |-> <<>>, numbytes |-> 0, data |-> <<>>,
     requested |-> <<>>, collected |-> <<>>, arrived |-> <<>>]

\* The ways to cut `bytes` into non-empty pieces.
RECURSIVE Splits(_)
Splits(bytes) ==
    IF bytes = <<>>
    THEN {<<>>}
    ELSE UNION {{<<SubSeq(bytes, 1, n)>> \o rest :
                   rest \in Splits(SubSeq(bytes, n + 1, Len(bytes)))} :
                n \in 1..Len(bytes)}

\* The streams of up to MaxBytes bytes, byte i being i - 1, in every split
\* into pieces.
Streams == UNION {Splits([i \in 1..t |-> i - 1]) : t \in 0..MaxBytes}

\* A call readexactly(sock, numbytes) is entered: data = bytearray().
\* `requested` and `collected` log, per recv, its argument and len(data)
\* before it; `arrived` is what sock delivers in all.
ReadCalls ==
    {[pc |-> "while", sock |-> st, numbytes |-> n, data |-> <<>>,
      requested |-> <<>>, collected |-> <<>>, arrived |-> st] :
        st \in Streams, n \in 0..MaxRead}

\* while len(data) < numbytes: packet = sock.recv(numbytes - len(data));
\* if not packet: return data; data.extend(packet)
ReadExactlyRecv ==
    /\ rd.pc = "while"
    /\ Len(rd.data) < rd.numbytes
    /\ LET bufsize == rd.numbytes - Len(rd.data)
           r == recv(rd.sock, bufsize)
       IN  rd' = [rd EXCEPT
                    !.sock = r.rest,
                    !.requested = Append(@, bufsize),
                    !.collected = Append(@, Len(rd.data)),
                    !.data = @ \o r.packet,
                    !.pc = IF r.packet = <<>> THEN "returned" ELSE "while"]
    /\ UNCHANGED <<accepted, apc, msg, waiting_clients, games, session, closed,
                   sent, rx>>

\* The loop condition fails: return data
ReadExactlyReturn ==
    /\ rd.pc = "while"
    /\ ~(Len(rd.data) < rd.numbytes)
    /\ rd' = [rd EXCEPT !.pc = "returned"]
    /\ UNCHANGED <<accepted, apc, msg, waiting_clients, games, session, closed,
                   sent, rx>>

\* ------------------------------------------------------------ deal_cards
Cube(i) == (i * i * i) % (DeckSize + 1)

\* random.shuffle(deck): the k-th of the NumDeals permutations of 0..51
\* the model draws from.
shuffle(k) ==
    [i \in 1..DeckSize |-> (((k + 3) * Cube(Cube(i))) % (DeckSize + 1)) - 1]

\* Faulty variant: the second slice starts one card early.
deal_cardsOverlap(k) ==
    LET deck == shuffle(k)
    IN  <<SubSeq(deck, 1, HandSize), SubSeq(deck, HandSize, DeckSize)>>

deal_cards(k) ==
    LET deck == shuffle(k)
    IN  <<SubSeq(deck, 1, HandSize), SubSeq(deck, HandSize + 1, DeckSize)>>

\* --------------------------------------------------------- compare_cards
\* Faulty variant: the cards are compared without taking the rank.
compare_cardsNoRank(card1, card2) ==
    IF card1 < card2 THEN -1
    ELSE IF card1 > card2 THEN 1
    ELSE 0

compare_cards(card1, card2) ==
    LET rank1 == card1 % RankMod
        rank2 == card2 % RankMod
    IN  IF rank1 < rank2 THEN -1
        ELSE IF rank1 > rank2 THEN 1
        ELSE 0

\* ------------------------------------------------------------------ Init
NewSession ==
    [pc |-> "start", p1_cards |-> <<>>, p2_cards |-> <<>>,
     p1_played |-> {}, p2_played |-> {}, round |-> 0, ioerr |-> FALSE]

Init ==
    /\ accepted = 0
    /\ apc = "accept"
    /\ msg = <<>>
    /\ waiting_clients = <<>>
    /\ games = <<>>
    /\ session = <<>>
    /\ closed = [c \in Conns |-> FALSE]
    /\ sent = [c \in Conns |-> <<>>]
    /\ rx = [c \in Conns |-> <<>>]
    /\ rd = NoRead

\* ------------------------------------------------------------ serve_game
\* The opening frames a connecting peer may send.
OpeningFrames == {<<WANTGAME, 0>>, <<PLAYCARD, 0>>}

\* if len(msg) < 2 or msg[0] != Command.WANTGAME.value
InvalidInitial(data) ==
    IF Len(data) < FrameLen THEN TRUE ELSE data[1] # WANTGAME

\* Faulty variant: the game is run in the accept loop's own thread.
AcceptorWaitsForAll == DOMAIN session

\* game_thread.start(): the games whose end the accept loop waits for before
\* it accepts again.  The threads are started and never joined: none.
AcceptorWaitsFor == {}

\* Faulty variant: accept() is called again while the opening read is pending.
AcceptWhileReading ==
    /\ accepted < MaxConns
    /\ accepted' = accepted + 1
    /\ apc' = "read"
    /\ msg' = <<>>
    /\ UNCHANGED <<waiting_clients, games, session, closed, sent, rx, rd>>

\* client_socket, client_address = server_socket.accept()
Accept ==
    /\ apc = "accept"
    /\ accepted < MaxConns
    /\ \A g \in AcceptorWaitsFor : session[g].pc \in {"completed", "killed"}
    /\ accepted' = accepted + 1
    /\ apc' = "read"
    /\ msg' = <<>>
    /\ UNCHANGED <<waiting_clients, games, session, closed, sent, rx, rd>>

\* A recv raises inside readexactly: the except clause closes client_socket.
ServeError ==
    /\ apc' = "accept"
    /\ msg' = <<>>
    /\ closed' = [closed EXCEPT ![client_socket] = TRUE]
    /\ UNCHANGED <<accepted, waiting_clients, games, session, sent, rx, rd>>

\* Faulty variant: no `continue` after the close, the socket goes on to the queue.
ServeRejectNoContinue(data) ==
    /\ InvalidInitial(data)
    /\ apc' = "accept"
    /\ msg' = data
    /\ closed' = [closed EXCEPT ![client_socket] = TRUE]
    /\ waiting_clients' = Append(waiting_clients, client_socket)
    /\ UNCHANGED <<accepted, games, session, sent, rx, rd>>

\* len(msg) < 2 or msg[0] != WANTGAME: close and continue.
ServeReject(data) ==
    /\ InvalidInitial(data)
    /\ apc' = "accept"
    /\ msg' = data
    /\ closed' = [closed EXCEPT ![client_socket] = TRUE]
    /\ UNCHANGED <<accepted, waiting_clients, games, session, sent, rx, rd>>

\* Faulty variant: the socket is appended whether or not somebody waits.
ServeWaitAlways(data) ==
    /\ ~InvalidInitial(data)
    /\ apc' = "accept"
    /\ msg' = data
    /\ waiting_clients' = Append(waiting_clients, client_socket)
    /\ UNCHANGED <<accepted, games, session, closed, sent, rx, rd>>

\* if not waiting_clients: waiting_clients.append(client_socket)
ServeWait(data) ==
    /\ ~InvalidInitial(data)
    /\ waiting_clients = <<>>
    /\ apc' = "accept"
    /\ msg' = data
    /\ waiting_clients' = Append(waiting_clients, client_socket)
    /\ UNCHANGED <<accepted, games, session, closed, sent, rx, rd>>

\* Faulty variant: the opponent is read from the queue and left in it.
ServePairNoPop(data) ==
    /\ ~InvalidInitial(data)
    /\ waiting_clients # <<>>
    /\ LET opponent_socket == Head(waiting_clients)
       IN  /\ games' = Append(games, Game(opponent_socket, client_socket))
           /\ session' = Append(session, NewSession)
    /\ apc' = "accept"
    /\ msg' = data
    /\ UNCHANGED <<accepted, waiting_clients, closed, sent, rx, rd>>

\* else: opponent_socket = waiting_clients.pop(0); the game and its thread.
ServePair(data) ==
    /\ ~InvalidInitial(data)
    /\ waiting_clients # <<>>
    /\ LET opponent_socket == Head(waiting_clients)
       IN  /\ waiting_clients' = Tail(waiting_clients)
           /\ games' = Append(games, Game(opponent_socket, client_socket))
           /\ session' = Append(session, NewSession)
    /\ apc' = "accept"
    /\ msg' = data
    /\ UNCHANGED <<accepted, closed, sent, rx, rd>>

\* msg = readexactly(client_socket, 2) returns or raises, and the rest of
\* the loop body runs.
ServeRead(F) ==
    /\ apc = "read"
    /\ \E o \in ReadOutcomes(F, FrameLen, TRUE) :
         \/ o.exc /\ ServeError
         \/ ~o.exc /\ ServeReject(o.data)
         \/ ~o.exc /\ ServeWait(o.data)
         \/ ~o.exc /\ ServePair(o.data)

\* ------------------------------------------------------------- kill_game
\* Faulty variant: only player 1's socket is closed.
kill_gameP1Only(closedNow, game) ==
    [closedNow EXCEPT ![game.p1] = TRUE]

\* Faulty variant: every socket of the server is closed.
kill_gameAll(closedNow, game) ==
    [c \in DOMAIN closedNow |-> TRUE]

\* Faulty variant: the game is logged as killed and no socket is closed.
kill_gameNoClose(closedNow, game) == closedNow

\* game.p1.close() and game.p2.close(), each inside its own try/except.
kill_game(closedNow, game) ==
    [closedNow EXCEPT ![game.p1] = TRUE, ![game.p2] = TRUE]

\* ----------------------------------------------- handle_client_connection
\* bytes([Command.GAMESTART.value]) + bytes(cards)
GameStartFrame(cards) == <<GAMESTART>> \o cards

\* bytes([Command.PLAYRESULT.value, result])
ResultFrame(result) == <<PLAYRESULT, result>>

\* Faulty variant: the opcode is compared with PLAYRESULT.
InvalidMessageWrongOp(m) ==
    IF Len(m) < FrameLen THEN TRUE ELSE m[1] # PLAYRESULT

\* len(msg) < 2 or msg[0] != Command.PLAYCARD.value
InvalidMessage(m) ==
    IF Len(m) < FrameLen THEN TRUE ELSE m[1] # PLAYCARD

\* Faulty variant: the played set is not consulted.
InvalidCardNoReplay(card, cards, played) ==
    card \notin Range(cards)

\* Faulty variant: the card is not validated.
InvalidCardNever(card, cards, played) == FALSE

\* Faulty variant: the hand is not consulted.
InvalidCardNoHand(card, cards, played) ==
    card \in played

\* card not in cards or card in played_cards
InvalidCard(card, cards, played) ==
    card \notin Range(cards) \/ card \in played

\* The branches on result: the frames for <<player 1, player 2>>.
ResultFrames(result) ==
    IF result > 0 THEN <<ResultFrame(WIN), ResultFrame(LOSE)>>
    ELSE IF result < 0 THEN <<ResultFrame(LOSE), ResultFrame(WIN)>>
    ELSE <<ResultFrame(DRAW), ResultFrame(DRAW)>>

\* Which of two sendall calls in a row raises: 0 none, 1 the first (to
\* player 1), 2 the second (to player 2).  A sendall that raises delivers
\* nothing.
SendFaults(faults) == IF faults THEN 0..2 ELSE {0}

\* Whether one of the two final close() calls raises.
CloseFaults(faults) == IF faults THEN {FALSE, TRUE} ELSE {FALSE}

\* The frames the player holding `hand` may send in the round after `round`
\* completed ones: the next card of its hand in the order dealt (as client()
\* plays) and, with faults, a wrong opcode, a card of the opponent's hand,
\* and the card it played last.
PlayFrames(hand, other, round, faults) ==
    {<<PLAYCARD, hand[round + 1]>>}
    \cup (IF faults
          THEN {<<WANTGAME, hand[round + 1]>>, <<PLAYCARD, other[1]>>}
               \cup (IF round >= 1 THEN {<<PLAYCARD, hand[round]>>} ELSE {})
          ELSE {})

\* Faulty variant: the second sendall runs although the first raised.
SendBothIndependent(sentNow, game, frames, f) ==
    [sentNow EXCEPT
        ![game.p1] = IF f # 1 THEN Append(@, frames[1]) ELSE @,
        ![game.p2] = IF f # 2 THEN Append(@, frames[2]) ELSE @]

\* The two sendall calls in a row, of frames[1] to p1 then frames[2] to p2.
SendBoth(sentNow, game, frames, f) ==
    [sentNow EXCEPT
        ![game.p1] = IF f # 1 THEN Append(@, frames[1]) ELSE @,
        ![game.p2] = IF f = 0 THEN Append(@, frames[2]) ELSE @]

\* Faulty variant: the except clause does not kill the game.
RaisedNoKill(g, s) ==
    /\ session' = [session EXCEPT ![g] = [s EXCEPT !.pc = "killed", !.ioerr = TRUE]]
    /\ UNCHANGED closed

\* except Exception: kill_game(game)
Raised(g, s) ==
    /\ session' = [session EXCEPT ![g] = [s EXCEPT !.pc = "killed", !.ioerr = TRUE]]
    /\ closed' = kill_game(closed, games[g])

\* Faulty variant: no `return` after kill_game, the thread goes on reading.
ViolationNoReturn(g, s) ==
    /\ session' = [session EXCEPT ![g] = s]
    /\ closed' = kill_game(closed, games[g])

\* logging.error(...); kill_game(game); return
Violation(g, s) ==
    /\ session' = [session EXCEPT ![g] = [s EXCEPT !.pc = "killed"]]
    /\ closed' = kill_game(closed, games[g])

\* Faulty input (a stream that ends early, a bad frame, a socket call that
\* raises) is fed to game sessions until MaxFaults of them are killed.
Faulty(faults) ==
    faults /\ Cardinality({g \in DOMAIN session : session[g].pc = "killed"}) < MaxFaults

\* The thread starts: deal_cards() and the two GAMESTART sends, of which
\* the one numbered f in F (0: none) raises.
GameStartWith(g, F) ==
    /\ g \in DOMAIN session
    /\ session[g].pc = "start"
    /\ \E k \in 1..NumDeals, f \in F :
         LET hands == deal_cards(k)
             s == [session[g] EXCEPT !.p1_cards = hands[1], !.p2_cards = hands[2]]
             frames == <<GameStartFrame(hands[1]), GameStartFrame(hands[2])>>
         IN  /\ sent' = SendBoth(sent, games[g], frames, f)
             /\ IF f = 0
                THEN /\ session' = [session EXCEPT ![g] = [s EXCEPT !.pc = "read_p1"]]
                     /\ UNCHANGED closed
                ELSE Raised(g, s)
    /\ UNCHANGED <<accepted, apc, msg, waiting_clients, games, rx, rd>>

\* The thread starts; with faults either sendall may raise.
GameStart(g, faults) ==
    /\ g \in DOMAIN session
    /\ GameStartWith(g, SendFaults(Faulty(faults)))

\* p1_msg = readexactly(p1_socket, 2) returns or raises, with one of the
\* given outcomes, and the checks on player 1's frame run.
ReadP1From(g, outcomes) ==
    /\ g \in DOMAIN session
    /\ session[g].pc = "read_p1"
    /\ LET s == session[g]
           p1 == games[g].p1
       IN  \E o \in outcomes :
             IF o.exc
             THEN Raised(g, s) /\ UNCHANGED rx
             ELSE LET p1_msg == o.data
                  IN  /\ rx' = [rx EXCEPT ![p1] = Append(@, p1_msg)]
                      /\ IF InvalidMessage(p1_msg)
                         THEN Violation(g, s)
                         ELSE IF InvalidCard(p1_msg[2], s.p1_cards, s.p1_played)
                         THEN Violation(g, s)
                         ELSE /\ session' = [session EXCEPT ![g] =
                                    [s EXCEPT !.p1_played = @ \cup {p1_msg[2]},
                                              !.pc = "read_p2"]]
                              /\ UNCHANGED closed
    /\ UNCHANGED <<accepted, apc, msg, waiting_clients, games, sent, rd>>

\* Player 1's frame is read; it is one of PlayFrames, delivered in one of
\* Deliveries.
ReadP1(g, faults) ==
    /\ g \in DOMAIN session
    /\ ReadP1From(g, ReadOutcomes(PlayFrames(session[g].p1_cards,
                                             session[g].p2_cards,
                                             session[g].round, Faulty(faults)),
                                  FrameLen, Faulty(faults)))

\* After both cards are accepted: compare_cards, the two PLAYRESULT sends,
\* the next round, and after the last round the two close() calls.
FinishRound(g, s, p1_card, p2_card, f, c) ==
    LET result == compare_cards(p1_card, p2_card)
        t == [s EXCEPT !.p2_played = @ \cup {p2_card},
                       !.round = IF f = 0 THEN @ + 1 ELSE @]
    IN  /\ sent' = SendBoth(sent, games[g], ResultFrames(result), f)
        /\ IF f # 0
           THEN Raised(g, t)
           ELSE IF t.round < NumRounds
           THEN /\ session' = [session EXCEPT ![g] = [t EXCEPT !.pc = "read_p1"]]
                /\ UNCHANGED closed
           ELSE IF c
           THEN Raised(g, t)
           ELSE /\ session' = [session EXCEPT ![g] = [t EXCEPT !.pc = "completed"]]
                /\ closed' = [closed EXCEPT ![games[g].p1] = TRUE,
                                            ![games[g].p2] = TRUE]

\* p2_msg = readexactly(p2_socket, 2) returns or raises, and the checks on
\* player 2's frame and the rest of the round run.
ReadP2(g, faults) ==
    /\ g \in DOMAIN session
    /\ session[g].pc = "read_p2"
    /\ LET s == session[g]
           p1 == games[g].p1
           p2 == games[g].p2
       IN  \E o \in ReadOutcomes(PlayFrames(s.p2_cards, s.p1_cards, s.round,
                                            Faulty(faults)),
                                 FrameLen, Faulty(faults)) :
             IF o.exc
             THEN Raised(g, s) /\ UNCHANGED <<rx, sent>>
             ELSE LET p2_msg == o.data
                      p1_msg == rx[p1][Len(rx[p1])]
                  IN  /\ rx' = [rx EXCEPT ![p2] = Append(@, p2_msg)]
                      /\ IF InvalidMessage(p2_msg)
                         THEN Violation(g, s) /\ UNCHANGED sent
                         ELSE IF InvalidCard(p2_msg[2], s.p2_cards, s.p2_played)
                         THEN Violation(g, s) /\ UNCHANGED sent
                         ELSE \E f \in SendFaults(Faulty(faults)),
                                 c \in CloseFaults(Faulty(faults)) :
                                FinishRound(g, s, p1_msg[2], p2_msg[2], f, c)
    /\ UNCHANGED <<accepted, apc, msg, waiting_clients, games, rd>>

GameIds == 1..(MaxConns \div 2)

\* One step of the thread of game g.
GameStep(g, faults) ==
    \/ GameStart(g, faults)
    \/ ReadP1(g, faults)
    \/ ReadP2(g, faults)

Next ==
    \/ Accept
    \/ ServeRead(OpeningFrames)
    \/ \E g \in GameIds : GameStart(g, TRUE)
    \/ \E g \in GameIds : ReadP1(g, TRUE)
    \/ \E g \in GameIds : ReadP2(g, TRUE)

Spec == Init /\ [][Next]_vars

\* The runs in which every player sends well-formed frames of its own cards,
\* no socket call of a game raises, every frame awaited arrives and every
\* game thread is scheduled.
NextGood ==
    \/ Accept
    \/ ServeRead(OpeningFrames)
    \/ \E g \in GameIds : GameStart(g, FALSE)
    \/ \E g \in GameIds : ReadP1(g, FALSE)
    \/ \E g \in GameIds : ReadP2(g, FALSE)

LiveSpec ==
    /\ Init
    /\ [][NextGood]_vars
    /\ \A g \in GameIds : WF_vars(GameStep(g, FALSE))

\* The opening frames of a peer that may also set the second byte of its
\* WANTGAME frame.
AnyOpeningFrames == OpeningFrames \cup {<<WANTGAME, 1>>}

\* The runs of NextGood with the opening frames of AnyOpeningFrames.
NextOpen ==
    \/ Accept
    \/ ServeRead(AnyOpeningFrames)
    \/ \E g \in GameIds : GameStart(g, FALSE)
    \/ \E g \in GameIds : ReadP1(g, FALSE)
    \/ \E g \in GameIds : ReadP2(g, FALSE)

OpenSpec == Init /\ [][NextOpen]_vars

\* One call of readexactly on a socket that delivers any of Streams, with
\* any numbytes up to MaxRead, followed recv by recv.
ReadInit ==
    /\ accepted = 0
    /\ apc = "accept"
    /\ msg = <<>>
    /\ waiting_clients = <<>>
    /\ games = <<>>
    /\ session = <<>>
    /\ closed = [c \in Conns |-> FALSE]
    /\ sent = [c \in Conns |-> <<>>]
    /\ rx = [c \in Conns |-> <<>>]
    /\ rd \in ReadCalls

ReadNext ==
    \/ ReadExactlyRecv
    \/ ReadExactlyReturn

ReadSpec == ReadInit /\ [][ReadNext]_vars

\* The peer of the connection that waits first disconnects while it waits:
\* it is player 1 of game 1.
PeerGone(g) == g = 1

\* What a read delivers on a connection whose peer has disconnected without
\* sending a frame: a recv raises (connection reset), or the stream ends at
\* once or after a stray byte.
GoneOutcomes ==
    {[exc |-> TRUE, data |-> <<>>]}
    \cup {[exc |-> FALSE, data |-> readexactly(st, FrameLen).data] :
            st \in {<<>>, <<<<PLAYCARD>>>>}}

\* A sendall to a connection whose peer has disconnected raises or not.
GoneSendFaults == {0, 1}

\* One step of the thread of game g, with player 1's peer gone in game 1
\* and well-formed frames from every other peer.
GoneStep(g) ==
    \/ IF PeerGone(g) THEN GameStartWith(g, GoneSendFaults) ELSE GameStart(g, FALSE)
    \/ IF PeerGone(g) THEN ReadP1From(g, GoneOutcomes) ELSE ReadP1(g, FALSE)
    \/ ReadP2(g, FALSE)

GoneNext ==
    \/ Accept
    \/ ServeRead(OpeningFrames)
    \/ \E g \in GameIds :
         IF PeerGone(g) THEN GameStartWith(g, GoneSendFaults) ELSE GameStart(g, FALSE)
    \/ \E g \in GameIds :
         IF PeerGone(g) THEN ReadP1From(g, GoneOutcomes) ELSE ReadP1(g, FALSE)
    \/ \E g \in GameIds : ReadP2(g, FALSE)

\* The end of the stream or the reset reaches the server, and every game
\* thread is scheduled.
GoneSpec ==
    /\ Init
    /\ [][GoneNext]_vars
    /\ \A g \in GameIds : WF_vars(GoneStep(g))

\* ============================================================ properties
Sessions == DOMAIN session

P1(g) == games[g].p1
P2(g) == games[g].p2

Completed(g) == session[g].pc = "completed"
Killed(g) == session[g].pc = "killed"

\* The PLAYRESULT frames sent on connection c.
PlayResults(c) ==
    Cardinality({i \in DOMAIN sent[c] : sent[c][i][1] = PLAYRESULT})

\* Frame i of `frames` is a 2-byte PLAYCARD frame.
WellFormed(frames, i) ==
    Len(frames[i]) = FrameLen /\ frames[i][1] = PLAYCARD

\* Frame i of `frames` plays a card that an earlier frame of `frames` played.
Replayed(frames, i) ==
    /\ Len(frames[i]) = FrameLen
    /\ \E j \in 1..(i - 1) : Len(frames[j]) = FrameLen /\ frames[j][2] = frames[i][2]

\* Frame i of `frames` is a well-formed PLAYCARD frame of a card of `hand`
\* that no earlier frame played.
GoodFrame(frames, i, hand) ==
    /\ WellFormed(frames, i)
    /\ frames[i][2] \in Range(hand)
    /\ ~Replayed(frames, i)

\* All 26 round frames of one player are good.
AllFramesGood(frames, hand) ==
    /\ Len(frames) = NumRounds
    /\ \A i \in DOMAIN frames : GoodFrame(frames, i, hand)

AllGood(g) ==
    /\ AllFramesGood(rx[P1(g)], session[g].p1_cards)
    /\ AllFramesGood(rx[P2(g)], session[g].p2_cards)

\* The frame read last from a player of `hand` is not a good one.
LastFrameBad(frames, hand) ==
    frames # <<>> /\ ~GoodFrame(frames, Len(frames), hand)

\* C1 as stated: a game is Completed if and only if all 52 round frames are
\* well-formed PLAYCARD frames of the sender's own hand without a repeat.
C1_CompletedIffAllGood ==
    \A g \in Sessions : Completed(g) <=> AllGood(g)

\* C1 amended: a game is Completed if and only if all 52 round frames are
\* well-formed PLAYCARD frames of the sender's own hand without a repeat and
\* no socket call of the session raised; a session in which a socket call
\* raised or that read a frame that is not such a frame is Killed.
C1_CompletedIffAllGoodNoError ==
    \A g \in Sessions :
      /\ Completed(g) <=> (AllGood(g) /\ ~session[g].ioerr)
      /\ session[g].ioerr => Killed(g)
      /\ LastFrameBad(rx[P1(g)], session[g].p1_cards) => Killed(g)
      /\ LastFrameBad(rx[P2(g)], session[g].p2_cards) => Killed(g)

C1_Witness ==
    \E g \in Sessions : Completed(g) /\ AllGood(g)

\* Frame i of `frames` is a full frame that breaks the protocol: a wrong
\* opcode, a card outside the hand, or a card played before.
Breaks(frames, i, hand) ==
    /\ Len(frames[i]) = FrameLen
    /\ \/ frames[i][1] # PLAYCARD
       \/ frames[i][2] \notin Range(hand)
       \/ Replayed(frames, i)

\* The step reads a frame from connection c, of the player holding `hand`,
\* and that frame breaks the protocol.
ReadsBreaking(c, hand) ==
    /\ Len(rx'[c]) = Len(rx[c]) + 1
    /\ Breaks(rx'[c], Len(rx'[c]), hand)

\* C2: a step that reads, in round i, a frame with a wrong opcode, a card
\* that is not in the sender's hand or a card the sender played before, from
\* either player, kills the game in that step: both connections are closed
\* and nothing is sent (each player has the PLAYRESULT frames of the i - 1
\* rounds before); and a killed game stays killed and is sent nothing more.
C2_ViolationKills ==
    [][\A g \in Sessions :
         /\ (\/ ReadsBreaking(P1(g), session[g].p1_cards)
             \/ ReadsBreaking(P2(g), session[g].p2_cards))
            => /\ Killed(g)'
               /\ closed'[P1(g)] /\ closed'[P2(g)]
               /\ sent'[P1(g)] = sent[P1(g)] /\ sent'[P2(g)] = sent[P2(g)]
               /\ PlayResults(P1(g)) = session[g].round
               /\ PlayResults(P2(g)) = session[g].round
         /\ Killed(g)
            => /\ Killed(g)'
               /\ closed'[P1(g)] /\ closed'[P2(g)]
               /\ sent'[P1(g)] = sent[P1(g)] /\ sent'[P2(g)] = sent[P2(g)]
      ]_vars

C2_Witness ==
    \E g \in Sessions :
      /\ Killed(g)
      /\ session[g].round >= 1
      /\ Len(rx[P2(g)]) = session[g].round + 1
      /\ Replayed(rx[P2(g)], Len(rx[P2(g)]))
      /\ WellFormed(rx[P2(g)], Len(rx[P2(g)]))

\* The PLAYRESULT frames <<to player 1, to player 2>> that cards c1 and c2
\* call for, by rank alone.
Expected(c1, c2) ==
    IF c1 % 13 > c2 % 13 THEN <<<<PLAYRESULT, WIN>>, <<PLAYRESULT, LOSE>>>>
    ELSE IF c1 % 13 < c2 % 13 THEN <<<<PLAYRESULT, LOSE>>, <<PLAYRESULT, WIN>>>>
    ELSE <<<<PLAYRESULT, DRAW>>, <<PLAYRESULT, DRAW>>>>

\* C3: for every completed round i of a game, with accepted cards c1 and c2,
\* the frame after GAMESTART number i sent to each player is the PLAYRESULT
\* that the ranks c1 mod 13 and c2 mod 13 call for (WIN/LOSE, LOSE/WIN, or
\* DRAW/DRAW), and a player has exactly one PLAYRESULT per completed round
\* (one more only in a game killed while sending the results of a round).
C3_ResultsByRank ==
    \A g \in Sessions :
      /\ \A i \in 1..session[g].round :
           LET e == Expected(rx[P1(g)][i][2], rx[P2(g)][i][2])
           IN  /\ Len(sent[P1(g)]) >= i + 1 /\ sent[P1(g)][i + 1] = e[1]
               /\ Len(sent[P2(g)]) >= i + 1 /\ sent[P2(g)][i + 1] = e[2]
      /\ ~Killed(g) => /\ PlayResults(P1(g)) = session[g].round
                       /\ PlayResults(P2(g)) = session[g].round
      /\ PlayResults(P2(g)) = session[g].round
      /\ PlayResults(P1(g)) \in {session[g].round, session[g].round + 1}

C3_Witness ==
    \E g \in Sessions :
      /\ session[g].round >= 3
      /\ {<<PLAYRESULT, WIN>>, <<PLAYRESULT, LOSE>>, <<PLAYRESULT, DRAW>>}
           \subseteq Range(sent[P1(g)])

\* C4: in every game that has dealt, the two hands have 26 cards each, are
\* disjoint and together are exactly 0..51, and the GAMESTART frame a player
\* was sent carries the hand its cards are validated against.
C4_DealPartitionsDeck ==
    \A g \in Sessions :
      session[g].pc # "start" =>
        LET h1 == session[g].p1_cards
            h2 == session[g].p2_cards
        IN  /\ Len(h1) = 26 /\ Len(h2) = 26
            /\ Cardinality(Range(h1)) = 26 /\ Cardinality(Range(h2)) = 26
            /\ Range(h1) \cap Range(h2) = {}
            /\ Range(h1) \cup Range(h2) = 0..51
            /\ sent[P1(g)] # <<>> => sent[P1(g)][1] = <<GAMESTART>> \o h1
            /\ sent[P2(g)] # <<>> => sent[P2(g)][1] = <<GAMESTART>> \o h2
            /\ ~session[g].ioerr => Len(sent[P1(g)]) >= 1 /\ Len(sent[P2(g)]) >= 1
            /\ session[g].p1_played \subseteq Range(h1)
            /\ session[g].p2_played \subseteq Range(h2)

C4_Witness ==
    \E g, h \in Sessions :
      /\ session[g].round >= 1 /\ session[h].round >= 1
      /\ session[g].p1_cards # session[h].p1_cards

\* The step ends the read of an opening frame that is a WANTGAME frame.
AdmitsArrival ==
    apc = "read" /\ apc' = "accept" /\ ~InvalidInitial(msg')

\* Connection c was turned away: closed without ever being in a game.
TurnedAway(c) ==
    closed[c] /\ \A g \in Sessions : c \notin {P1(g), P2(g)}

\* C5: a valid arrival that finds the queue non-empty is paired with the
\* head of the queue (the longest waiting, as player 1, the arrival as player
\* 2) and the head leaves the queue; one that finds the queue empty is
\* appended and no game is formed.  After three valid arrivals 1, 2, 3 the
\* only game is (1, 2) and 3 is queued.
C5_FifoPairing ==
    /\ [][AdmitsArrival =>
            IF waiting_clients # <<>>
            THEN /\ games' = Append(games, [p1 |-> Head(waiting_clients),
                                            p2 |-> accepted])
                 /\ waiting_clients' = Tail(waiting_clients)
            ELSE /\ waiting_clients' = <<accepted>>
                 /\ games' = games
        ]_vars
    /\ []((/\ accepted = 3
           /\ apc = "accept"
           /\ \A c \in 1..3 : ~TurnedAway(c))
          => /\ games = <<[p1 |-> 1, p2 |-> 2]>>
             /\ waiting_clients = <<3>>)

C5_Witness ==
    /\ accepted = 3
    /\ apc = "accept"
    /\ games = <<[p1 |-> 1, p2 |-> 2]>>
    /\ waiting_clients = <<3>>

\* The step ends the read of an opening frame that is short or is no
\* WANTGAME frame, or in which a recv raised.
TurnsAway ==
    apc = "read" /\ apc' = "accept" /\ InvalidInitial(msg')

\* C6: a connection whose opening read is short or whose first byte is not
\* WANTGAME is closed in that step, which leaves the waiting queue, every
\* game and every other connection as they were; and no closed connection
\* is ever in the waiting queue.
C6_BadOpeningRejected ==
    /\ [][TurnsAway =>
            /\ closed'[accepted]
            /\ accepted \notin Range(waiting_clients')
            /\ waiting_clients' = waiting_clients
            /\ games' = games
            /\ session' = session
            /\ sent' = sent
            /\ rx' = rx
            /\ \A c \in Conns \ {accepted} : closed'[c] = closed[c]
        ]_vars
    /\ [](\A c \in Range(waiting_clients) : ~closed[c])

C6_Witness ==
    /\ apc = "accept"
    /\ msg = <<PLAYCARD, 0>>
    /\ closed[accepted]
    /\ waiting_clients # <<>>
    /\ \E g \in Sessions : session[g].round >= 1 /\ ~Killed(g)

\* The accept loop can take its next step (when a connection or its opening
\* bytes arrive).
AcceptLoopRuns ==
    /\ (apc = "accept" /\ accepted < MaxConns) => ENABLED Accept
    /\ apc = "read" => ENABLED ServeRead(OpeningFrames)

\* C7: the step that kills a game closes that game's two connections and
\* changes nothing else: no other connection, no other game's session, not
\* the list of games, not the waiting queue, not the accept loop; and with
\* a game killed the accept loop still runs.
C7_FailureIsolation ==
    /\ [][\A h \in Sessions :
            (~Killed(h) /\ Killed(h)') =>
              /\ closed'[P1(h)] /\ closed'[P2(h)]
              /\ \A c \in Conns \ {P1(h), P2(h)} :
                   /\ closed'[c] = closed[c]
                   /\ sent'[c] = sent[c]
                   /\ rx'[c] = rx[c]
              /\ \A g \in Sessions \ {h} : session'[g] = session[g]
              /\ games' = games
              /\ waiting_clients' = waiting_clients
              /\ accepted' = accepted /\ apc' = apc /\ msg' = msg
        ]_vars
    /\ []((\E h \in Sessions : Killed(h)) => AcceptLoopRuns)

C7_Witness ==
    \E g, h \in Sessions :
      /\ Killed(h) /\ ~session[h].ioerr /\ session[h].round >= 1
      /\ Completed(g)

Blocked(g) == session[g].pc \in {"read_p1", "read_p2"}

\* C9: while a game's thread is blocked reading a round frame, the accept
\* loop can take its next step (accept a connection, read and handle its
\* opening frame) and the thread of every game that has not ended can take
\* its next step with well-formed input.
C9_AcceptNeverBlocksOnGames ==
    (\E g \in Sessions : Blocked(g)) =>
      /\ AcceptLoopRuns
      /\ \A h \in Sessions :
           ~(Completed(h) \/ Killed(h)) => ENABLED GameStep(h, FALSE)

C9_Witness ==
    \E g, h \in Sessions :
      /\ g < h
      /\ session[g].pc = "read_p1" /\ session[g].round = 0
      /\ Completed(h)

\* C10: when the players send well-formed frames of their own cards and no
\* socket call raises, every game eventually is Completed; and a Completed
\* game has played exactly 26 rounds, each player was sent one 27-byte
\* GAMESTART frame followed by exactly 26 PLAYRESULT frames, and both
\* connections are closed.
C10_GoodGameCompletes ==
    /\ \A g \in GameIds : (g \in Sessions) ~> (g \in Sessions /\ Completed(g))
    /\ [](\A g \in Sessions :
            Completed(g) =>
              /\ session[g].round = 26
              /\ \A c \in {P1(g), P2(g)} :
                   /\ Len(sent[c]) = 27
                   /\ sent[c][1][1] = GAMESTART /\ Len(sent[c][1]) = 27
                   /\ PlayResults(c) = 26
                   /\ closed[c])

C10_Witness ==
    \E g \in Sessions : Completed(g) /\ PlayResults(P2(g)) = 26

\* Connection c is in the waiting queue or is a player of a game.
Admitted(c) ==
    c \in Range(waiting_clients) \/ \E g \in Sessions : c \in {P1(g), P2(g)}

\* C11: a connection that the accept loop has just queued or paired sent the
\* opening frame [0x00, 0x00] exactly.
C11_OpeningExactlyZeroZero ==
    (apc = "accept" /\ Admitted(accepted)) => msg = <<0, 0>>

\* The session of game g has neither completed nor been killed.
Active(g) == session[g].pc \in {"start", "read_p1", "read_p2"}

\* The thread of game g can be killed by its next step.
CanBeKilled(g) == ENABLED (GameStep(g, TRUE) /\ Killed(g)')

\* C12: a game is active, completed or killed, and its connections are
\* closed by the server exactly when it is completed or killed; from then on
\* nothing is read from or sent on either connection and the session never
\* changes; a step leaves the round counter or adds one to it; and a game
\* that is starting, dealt, or in any round can be killed by its next step
\* (as long as faulty input is fed to the run).
C12_EndStatesAbsorbing ==
    /\ [](\A g \in Sessions :
            /\ Active(g) \/ Completed(g) \/ Killed(g)
            /\ Active(g) => ~closed[P1(g)] /\ ~closed[P2(g)]
            /\ ~Active(g) => closed[P1(g)] /\ closed[P2(g)]
            /\ session[g].round \in 0..26
            /\ (Active(g) /\ Faulty(TRUE)) => CanBeKilled(g))
    /\ [][\A g \in Sessions :
            /\ (~Active(g) \/ closed[P1(g)] \/ closed[P2(g)])
               => /\ session'[g] = session[g]
                  /\ \A c \in {P1(g), P2(g)} :
                       rx'[c] = rx[c] /\ sent'[c] = sent[c] /\ closed'[c]
            /\ session'[g].round \in {session[g].round, session[g].round + 1}
            /\ session'[g].round = session[g].round + 1
               => session[g].pc = "read_p2"
        ]_vars

C12_Witness ==
    \E g, h \in Sessions :
      /\ Killed(g) /\ session[g].round = 25 /\ Len(rx[P2(g)]) = 26
      /\ Completed(h)

\* The frames read from a player of `hand` that passed the checks: all of
\* them, but for a last one that is not good.
NumAccepted(frames, hand) ==
    IF LastFrameBad(frames, hand) THEN Len(frames) - 1 ELSE Len(frames)

\* `played` holds exactly the cards of the accepted frames, one card per
\* frame, all of them cards of `hand`.
PlayedIsAccepted(played, frames, hand) ==
    LET n == NumAccepted(frames, hand)
    IN  /\ played = {frames[i][2] : i \in 1..n}
        /\ Cardinality(played) = n
        /\ played \subseteq Range(hand)

\* C13: in every state of a game each player's played set is a subset of
\* that player's hand and holds one card per accepted frame, no card twice;
\* with k rounds completed both sets have k cards when the next round
\* starts and when the game has completed, and inside a round player 1's
\* set, then player 2's, has the one card more that was just accepted.
C13_PlayedSubsetOfHand ==
    \A g \in Sessions :
      LET s == session[g]
          n1 == Cardinality(s.p1_played)
          n2 == Cardinality(s.p2_played)
      IN  /\ PlayedIsAccepted(s.p1_played, rx[P1(g)], s.p1_cards)
          /\ PlayedIsAccepted(s.p2_played, rx[P2(g)], s.p2_cards)
          /\ s.pc \in {"start", "read_p1", "completed"}
             => n1 = s.round /\ n2 = s.round
          /\ s.pc = "read_p2" => n1 = s.round + 1 /\ n2 = s.round
          /\ s.round <= n2 /\ n2 <= n1 /\ n1 <= s.round + 1

C13_Witness ==
    \E g \in Sessions :
      /\ session[g].pc = "read_p2"
      /\ session[g].round = 25
      /\ Cardinality(session[g].p1_played) = 26
      /\ Cardinality(session[g].p2_played) = 25

\* C14: player 2's frame of a round is read only after player 1's frame of
\* that round was read and passed its checks, and PLAYRESULT frames are sent
\* only in the step that accepts player 2's frame after player 1's; and
\* while the thread waits for player 1's frame, a step in which nothing
\* arrives on player 1's connection (no bytes, no end of stream, no error)
\* leaves the game as it is: player 2 is not read, the game is not killed,
\* the round does not advance, nothing is sent, and no other step of the
\* thread is possible.
C14_PlayerOneFirst ==
    /\ [](\A g \in Sessions :
            /\ Len(rx[P2(g)]) <= Len(rx[P1(g)])
            /\ Len(rx[P1(g)]) <= Len(rx[P2(g)]) + 1
            /\ session[g].pc = "read_p1"
               => /\ Len(rx[P1(g)]) = session[g].round
                  /\ Len(rx[P2(g)]) = session[g].round
                  /\ PlayResults(P1(g)) = session[g].round
                  /\ PlayResults(P2(g)) = session[g].round
                  /\ ~ENABLED ReadP2(g, TRUE)
                  /\ ~ENABLED GameStart(g, TRUE))
    /\ [][\A g \in Sessions :
            LET s == session[g]
                i == s.round + 1
            IN  /\ rx'[P2(g)] # rx[P2(g)]
                   => /\ s.pc = "read_p2"
                      /\ rx'[P1(g)] = rx[P1(g)]
                      /\ Len(rx[P1(g)]) = i
                      /\ GoodFrame(rx[P1(g)], i, s.p1_cards)
                /\ (\E c \in {P1(g), P2(g)} : PlayResults(c)' # PlayResults(c))
                   => /\ Len(rx'[P2(g)]) = i /\ Len(rx[P2(g)]) = i - 1
                      /\ GoodFrame(rx'[P2(g)], i, s.p2_cards)
                      /\ GoodFrame(rx'[P1(g)], i, s.p1_cards)
                /\ (s.pc = "read_p1" /\ rx'[P1(g)] = rx[P1(g)] /\ ~session'[g].ioerr)
                   => /\ session'[g] = s
                      /\ rx'[P2(g)] = rx[P2(g)]
                      /\ \A c \in {P1(g), P2(g)} :
                           sent'[c] = sent[c] /\ closed'[c] = closed[c]
        ]_vars

C14_Witness ==
    \E g, h \in Sessions :
      /\ g < h
      /\ session[g].pc = "read_p1" /\ session[g].round = 1
      /\ PlayResults(P2(g)) = 1
      /\ Completed(h)

\* The frames sent on connection c are one 27-byte GAMESTART frame carrying
\* `hand`, followed by PLAYRESULT frames only.
StartedWith(c, hand) ==
    /\ sent[c] # <<>>
    /\ Len(sent[c][1]) = 27
    /\ sent[c][1][1] = 1
    /\ \A i \in 1..26 : sent[c][1][i + 1] = hand[i]
    /\ \A i \in 2..Len(sent[c]) : sent[c][i][1] = PLAYRESULT

\* C15: a game that has started has sent player 1 the 27-byte frame of
\* opcode 1 and player 1's 26 cards, and player 2 the same with player 2's
\* cards, player 1 first: whatever was sent to player 2 was sent after
\* player 1's frame; no round frame is read before both frames are sent;
\* and a game whose send to player 1 failed has sent nothing to player 2 and
\* is killed.
C15_GameStartFrames ==
    \A g \in Sessions :
      LET s == session[g]
      IN  /\ s.pc = "start"
             => sent[P1(g)] = <<>> /\ sent[P2(g)] = <<>>
                /\ rx[P1(g)] = <<>> /\ rx[P2(g)] = <<>>
          /\ sent[P1(g)] # <<>> => StartedWith(P1(g), s.p1_cards)
          /\ sent[P2(g)] # <<>>
             => StartedWith(P2(g), s.p2_cards) /\ StartedWith(P1(g), s.p1_cards)
          /\ (rx[P1(g)] # <<>> \/ rx[P2(g)] # <<>> \/ s.pc \in {"read_p1", "read_p2"})
             => StartedWith(P1(g), s.p1_cards) /\ StartedWith(P2(g), s.p2_cards)
          /\ (s.pc # "start" /\ sent[P1(g)] = <<>>)
             => /\ sent[P2(g)] = <<>>
                /\ Killed(g)
                /\ closed[P1(g)] /\ closed[P2(g)]
                /\ rx[P1(g)] = <<>> /\ rx[P2(g)] = <<>>

C15_Witness ==
    \E g, h \in Sessions :
      /\ Killed(g) /\ sent[P1(g)] = <<>> /\ sent[P2(g)] = <<>>
      /\ session[h].pc = "read_p1" /\ rx[P1(h)] = <<>>
      /\ Len(sent[P1(h)]) = 1 /\ Len(sent[P2(h)]) = 1

\* The bytes of a stream, its pieces joined.
RECURSIVE Flatten(_)
Flatten(stream) ==
    IF stream = <<>> THEN <<>> ELSE Head(stream) \o Flatten(Tail(stream))

\* C16: in a call readexactly(sock, n), whatever the split of the stream
\* into pieces, every recv asks for at least one byte and at most n minus
\* the bytes already collected; the bytes collected are never more than n
\* and, with what is left on the socket, are the stream that arrived; the
\* call returns the first n bytes of the stream if it has at least n bytes,
\* and otherwise the whole stream, fewer than n bytes; and the call taken as
\* one step, as the server's threads take it, returns the same.
C16_ReadExactly ==
    LET all == Flatten(rd.arrived)
        n == rd.numbytes
    IN  /\ \A i \in DOMAIN rd.requested :
             /\ rd.requested[i] >= 1
             /\ rd.requested[i] <= n - rd.collected[i]
        /\ Len(rd.data) <= n
        /\ rd.data \o Flatten(rd.sock) = all
        /\ rd.pc = "returned"
           => /\ Len(all) >= n => rd.data = SubSeq(all, 1, n)
              /\ Len(all) < n => rd.data = all /\ Len(rd.data) < n
              /\ readexactly(rd.arrived, n).data = rd.data
              /\ Flatten(readexactly(rd.arrived, n).rest) = Flatten(rd.sock)

C16_Witness ==
    /\ rd.pc = "returned"
    /\ rd.numbytes = 3
    /\ Len(rd.requested) = 3
    /\ rd.data = <<0, 1, 2>>
    /\ rd.sock = <<<<3>>>>

\* C17: the waiting queue never holds more than one connection; it changes
\* only when the accept loop admits a valid arrival, which is appended when
\* the queue is empty and otherwise takes the single waiter out and leaves
\* the queue empty.
C17_QueueAtMostOne ==
    /\ [](Len(waiting_clients) <= 1)
    /\ [][waiting_clients' # waiting_clients =>
            /\ AdmitsArrival
            /\ \/ waiting_clients = <<>> /\ waiting_clients' = <<accepted>>
               \/ Len(waiting_clients) = 1 /\ waiting_clients' = <<>>
        ]_vars

C17_Witness ==
    /\ waiting_clients = <<4>>
    /\ Len(games) = 1
    /\ \E c \in 1..3 : TurnedAway(c)

\* The places connection c is in: positions of the waiting queue, player
\* slots of games, and "rejected" when it was closed outside any game.
Places(c) ==
    {<<"queue", i>> : i \in {j \in DOMAIN waiting_clients : waiting_clients[j] = c}}
    \cup {<<"p1", g>> : g \in {h \in DOMAIN games : games[h].p1 = c}}
    \cup {<<"p2", g>> : g \in {h \in DOMAIN games : games[h].p2 = c}}
    \cup (IF closed[c] /\ \A g \in DOMAIN games : c \notin {games[g].p1, games[g].p2}
          THEN {<<"rejected", 0>>}
          ELSE {})

\* C18: every accepted connection is in at most one place (one position of
\* the waiting queue, one player slot of one game, or rejected), a
\* connection not yet accepted is in none, every game has a session thread
\* of its own, and a step of a game thread leaves the waiting queue and the
\* list of games as they are.
C18_OnePlacePerConnection ==
    /\ [](/\ \A c \in Conns : Cardinality(Places(c)) <= 1
          /\ \A c \in Conns : c > accepted => Places(c) = {}
          /\ DOMAIN games = DOMAIN session)
    /\ [][(\E g \in Sessions : session'[g] # session[g]) =>
            /\ waiting_clients' = waiting_clients
            /\ games' = games
        ]_vars

C18_Witness ==
    /\ Len(games) = 2
    /\ \A g \in Sessions : session[g].round >= 1 /\ Active(g)
    /\ \A c \in 1..4 : Cardinality(Places(c)) = 1

\* C19: while the accept loop is inside the read of an opening frame whose
\* two bytes have not all arrived and whose connection has not ended, it
\* cannot accept; every step taken meanwhile leaves the connections
\* accepted, the waiting queue and the list of games as they are; and the
\* thread of every game that has not ended can still take its next step.
\* Connections are accepted, queued and paired only by the accept loop
\* outside such a read or at its end.
C19_OpeningReadBlocksAccept ==
    /\ [](apc = "read" =>
            /\ ~ENABLED Accept
            /\ ~closed[accepted]
            /\ Places(accepted) = {}
            /\ \A g \in Sessions : Active(g) => ENABLED GameStep(g, FALSE))
    /\ [][
          /\ (apc = "read" /\ apc' = "read")
             => /\ accepted' = accepted
                /\ waiting_clients' = waiting_clients
                /\ games' = games
                /\ msg' = msg
          /\ accepted' # accepted => apc = "accept" /\ apc' = "read"
          /\ (waiting_clients' # waiting_clients \/ games' # games)
             => apc = "read" /\ apc' = "accept"
        ]_vars

C19_Witness ==
    /\ apc = "read"
    /\ accepted = 3
    /\ waiting_clients = <<>>
    /\ \E g \in Sessions : Completed(g)

====
